---------------------------- MODULE Spec2Model ----------------------------
(***************************************************************************)
(* Model of the giveaway winner picker (pick-winner.js and utils.js).      *)
(*                                                                         *)
(* Strings are sequences of one-character strings, so that toLowerCase     *)
(* and the mention regular expression are computed and not assumed.        *)
(* A paged Graph collection (graphPagedGET) is the finite sequence of the  *)
(* items it yields; the generator object over it is a record               *)
(* [items, pos, done]: pos items have been yielded, done is the            *)
(* generator's "completed" state.                                          *)
(***************************************************************************)
EXTENDS Integers, Sequences, FiniteSets, TLC

VARIABLES
    argv,      \* command line: follow-mode, followers-csv, seed
    run,       \* the state of one execution of main()
    twin,      \* a second, independent execution on the same inputs
    checker,   \* a like checker used on its own (makeLikeChecker)
    last,      \* what the latest hasLiked query on `checker` did
    byUser     \* all comment texts by user, as meetsTagRule reads them

vars == <<argv, run, twin, checker, last, byUser>>

-----------------------------------------------------------------------------
(* Bounds of the model *)

MaxComments == 2      \* comment records the comments edge yields
MaxLikes == 2         \* like records the likes edge yields

-----------------------------------------------------------------------------
(* Strings *)

LowerLetters == {"a", "b", "x", "y", "z"}
UpperLetters == {"A", "B", "X"}
HandleChars == LowerLetters \cup UpperLetters \cup {"1", ".", "_"}

\* String.prototype.toLowerCase on one character
LowerChar(c) ==
    CASE c = "A" -> "a"
      [] c = "B" -> "b"
      [] c = "X" -> "x"
      [] OTHER -> c

toLowerCase(s) == [i \in 1..Len(s) |-> LowerChar(s[i])]

Range(s) == {s[i] : i \in 1..Len(s)}

-----------------------------------------------------------------------------
(* utils.js *)

\* the longest run of handle characters of text starting at index i
RECURSIVE HandleEnd(_, _)
HandleEnd(text, i) ==
    IF i <= Len(text) /\ text[i] \in HandleChars
    THEN HandleEnd(text, i + 1)
    ELSE i

\* text.match(/@([A-Za-z0-9._]+)/g): the matches from index i on, left to
\* right, each greedy, the scan resuming after the match
RECURSIVE MatchFrom(_, _)
MatchFrom(text, i) ==
    IF i > Len(text) THEN <<>>
    ELSE IF text[i] = "@" /\ HandleEnd(text, i + 1) > i + 1
         THEN <<SubSeq(text, i, HandleEnd(text, i + 1) - 1)>>
              \o MatchFrom(text, HandleEnd(text, i + 1))
         ELSE MatchFrom(text, i + 1)

\* extractMentions: lowercased usernames, no '@'; [] for an absent or
\* empty text
extractMentions(text) ==
    IF text = <<>> THEN <<>>
    ELSE LET matches == MatchFrom(text, 1)
         IN  [k \in 1..Len(matches) |-> toLowerCase(Tail(matches[k]))]

\* swapRemove that also drops the last slot of the array
swapRemoveTruncates(arr, i, nRef) ==
    [arr |-> SubSeq([arr EXCEPT ![i + 1] = arr[nRef]], 1, Len(arr) - 1),
     n |-> nRef - 1]

\* swapRemove that forgets to move the last element into the hole
swapRemoveNoSwap(arr, i, nRef) == [arr |-> arr, n |-> nRef - 1]

\* swapRemove(arr, i, nRef), i counted from 0 as in the source: the array
\* after arr[i] = arr[nRef - 1], and the returned logical length
swapRemove(arr, i, nRef) ==
    [arr |-> [arr EXCEPT ![i + 1] = arr[nRef]], n |-> nRef - 1]

\* graphPagedGET: a fresh generator over the items of a collection
graphPagedGET(items) == [items |-> items, pos |-> 0, done |-> FALSE]

-----------------------------------------------------------------------------
(* makeLikeChecker / hasLiked *)

makeLikeChecker(likes) ==
    [pager |-> graphPagedGET(likes), cache |-> {}, exhausted |-> FALSE]

\* indices the for-await loop can still be handed: none once the
\* generator has completed
Remaining(pager) ==
    IF pager.done THEN {} ELSE (pager.pos + 1)..Len(pager.items)

\* the first remaining like record whose lowercased username is uname
\* (0 when there is none): where the loop's `return true` happens
FirstHit(pager, uname) ==
    LET hits == {j \in Remaining(pager) : toLowerCase(pager.items[j]) = uname}
    IN  IF hits = {} THEN 0 ELSE CHOOSE j \in hits : \A k \in hits : j <= k

\* the non-empty lowercased usernames of items[from..to]
Likers(items, from, to) ==
    {toLowerCase(items[j]) : j \in from..to} \ {<<>>}

\* hasLiked(username) on like checker lc: the checker afterwards, the value
\* returned, and the like records the call was handed (read).  Leaving the
\* for-await loop by `return true` closes the generator (the loop calls
\* pager.return()), as running off its end does.
hasLiked(lc, username) ==
    LET uname == toLowerCase(username)
        hit == FirstHit(lc.pager, uname)
        stop == IF hit # 0 THEN hit
                ELSE IF lc.pager.done THEN lc.pager.pos
                ELSE Len(lc.pager.items)
        seenNow == lc.cache \cup Likers(lc.pager.items, lc.pager.pos + 1, stop)
    IN  IF uname \in lc.cache
          THEN [lc |-> lc, ret |-> TRUE, scan |-> FALSE, read |-> <<>>]
        ELSE IF lc.exhausted
          THEN [lc |-> lc, ret |-> FALSE, scan |-> FALSE, read |-> <<>>]
        ELSE [lc |-> [pager |-> [lc.pager EXCEPT !.pos = stop, !.done = TRUE],
                      cache |-> seenNow,
                      exhausted |-> IF hit # 0 THEN lc.exhausted ELSE TRUE],
              ret |-> IF hit # 0 THEN TRUE ELSE uname \in seenNow,
              scan |-> TRUE,
              read |-> [k \in 1..(stop - lc.pager.pos) |-> lc.pager.pos + k]]

-----------------------------------------------------------------------------
(* makeRNG: a 32-bit word h is the pair <<hi, lo>> of its 16-bit halves *)

\* x ^ y on the k low bits of x and y
RECURSIVE XorBits(_, _, _)
XorBits(x, y, k) ==
    IF k = 0 THEN 0
    ELSE ((x + y) % 2) + 2 * XorBits(x \div 2, y \div 2, k - 1)

Xor(a, b) == <<XorBits(a[1], b[1], 16), XorBits(a[2], b[2], 16)>>   \* a ^ b

\* a << k for k < 15: the bits shifted out of the low half enter the high
Shl(a, k) ==
    <<((a[1] * (2 ^ k)) % 65536) + ((a[2] * (2 ^ k)) \div 65536),
      (a[2] * (2 ^ k)) % 65536>>

\* a >>> k for k >= 16: only bits of the high half remain
Shr(a, k) == <<0, a[1] \div (2 ^ (k - 16))>>

\* Math.imul(a, b): the low 32 bits of the product (the halves of b are
\* below 2^9, as those of the FNV prime are)
imul(a, b) ==
    <<(a[1] * b[2] + a[2] * b[1] + ((a[2] * b[2]) \div 65536)) % 65536,
      (a[2] * b[2]) % 65536>>

FnvOffset == <<33052, 40389>>       \* 2166136261 = 0x811C9DC5
FnvPrime == <<256, 403>>            \* 16777619 = 0x01000193

\* the hash loop over the character codes of seedStr, from the i-th on
RECURSIVE HashFrom(_, _, _)
HashFrom(h, codes, i) ==
    IF i > Len(codes) THEN h
    ELSE HashFrom(imul(Xor(h, <<0, codes[i]>>), FnvPrime), codes, i + 1)

\* makeRNG(seedStr): the generator's state h after the hash loop.  seedStr
\* is never empty (line 42), so Math is never returned.
makeRNG(codes) == HashFrom(FnvOffset, codes, 1)

\* (h >>> 0) % 1000000
ModMillion(h) ==
    (((((h[1] * 256) % 1000000) * 256) % 1000000) + h[2]) % 1000000

\* random(): the state after the three xorshift updates, and the numerator
\* m of the returned value m / 1000000
random(h) ==
    LET h1 == Xor(h, Shl(h, 13))
        h2 == Xor(h1, Shr(h1, 17))
        h3 == Xor(h2, Shl(h2, 5))
    IN  [h |-> h3, m |-> ModMillion(h3)]

\* Math.floor(RNG.random() * n) for the value m / 1000000.  The floating
\* point product equals the exact one for the pool sizes modelled (n <= 4).
DrawIndex(m, n) == (m * n) \div 1000000

-----------------------------------------------------------------------------
(* Tag rule *)

TagThreshold == 3

\* the mentions of texts[i..], text after text, in order
RECURSIVE MentionsFrom(_, _)
MentionsFrom(texts, i) ==
    IF i > Len(texts) THEN <<>>
    ELSE extractMentions(texts[i]) \o MentionsFrom(texts, i + 1)

\* a scan that counts the mentions instead of the unique ones
TagScanCountsRepeats(mentions, i, unique) == Len(mentions) >= TagThreshold

\* the two nested loops of meetsTagRule from the i-th mention on: true as
\* soon as the set of unique mentions reaches the threshold
RECURSIVE TagScan(_, _, _)
TagScan(mentions, i, unique) ==
    IF i > Len(mentions) THEN FALSE
    ELSE IF Cardinality(unique \cup {mentions[i]}) >= TagThreshold THEN TRUE
    ELSE TagScan(mentions, i + 1, unique \cup {mentions[i]})

\* meetsTagRule(username, byUserMap): byUserMap is a function from
\* lowercased usernames to the sequence of their comment texts
meetsTagRule(username, byUserMap) ==
    LET texts == IF toLowerCase(username) \in DOMAIN byUserMap
                 THEN byUserMap[toLowerCase(username)] ELSE <<>>
    IN  TagScan(MentionsFrom(texts, 1), 1, {})

\* The map from username to all of that user's comment texts that
\* meetsTagRule reads ("store all comment texts"): the record c added.
\* getEligibleCommenters does not build it; SpecIndexed keeps it beside
\* the run, in `byUser`, to state the tag rule.
indexComment(byUserMap, c) ==
    LET uname == toLowerCase(c.username)
    IN  IF uname = <<>> THEN byUserMap
        ELSE [u \in DOMAIN byUserMap \cup {uname} |->
                 IF u = uname
                 THEN (IF u \in DOMAIN byUserMap THEN byUserMap[u] ELSE <<>>)
                      \o (IF c.text = <<>> THEN <<>> ELSE <<c.text>>)
                 ELSE byUserMap[u]]

-----------------------------------------------------------------------------
(* Inputs *)

T3 == <<"@", "x", " ", "@", "y", " ", "@", "z">>       \* "@x @y @z"
TRep == <<"@", "x", " ", "@", "X", " ", "@", "x">>     \* "@x @X @x"
T2 == <<"@", "x", " ", "@", "y">>                      \* "@x @y"
T1 == <<"@", "z">>                                     \* "@z"

Texts == {T3, TRep, T2, T1}
CommentUsers == {<<"a">>, <<"b">>, <<"B">>, <<"a", "b">>, <<>>}
CommentRecords == [username : CommentUsers, text : Texts]

LikeNames == {<<"a">>, <<"B">>, <<>>}
LikeStreams == UNION {[1..k -> LikeNames] : k \in 0..MaxLikes}

\* rows of the followers CSV (the username column), case arbitrary
FollowerLists == {<<>>, <<<<"A">>>>, <<<<"A">>, <<"b">>>>}

\* --seed values, as character codes: "", "a" and "s1"
Seeds == {<<>>, <<97>>, <<115, 49>>}
\* `${mediaId}|${Date.now()}` at two instants: "1|1" and "1|6"
ClockSeeds == {<<49, 124, 49>>, <<49, 124, 54>>}

\* an absent option is <<>>, a given one <<value>>
Argvs ==
    {[mode |-> "manual-follow", csv |-> <<>>, seed |-> s] :
        s \in {<<>>} \cup {<<x>> : x \in Seeds}}
    \cup
    {[mode |-> "file-follow", csv |-> f, seed |-> s] :
        f \in {<<>>} \cup {<<x>> : x \in FollowerLists},
        s \in {<<>>} \cup {<<x>> : x \in Seeds}}

-----------------------------------------------------------------------------
(* makeFollowChecker / isFollower.  The follow result true | false |
   'unknown' is one of the strings "true", "false", "unknown". *)

\* whether makeFollowChecker throws
followCheckerThrows(mode, csvPath) == mode = "file-follow" /\ csvPath = <<>>

makeFollowChecker(mode, csvPath) ==
    IF mode = "file-follow"
    THEN [mode |-> mode,
          follows |-> {toLowerCase(csvPath[1][k]) : k \in 1..Len(csvPath[1])}
                      \ {<<>>}]
    ELSE [mode |-> mode, follows |-> {}]

isFollower(fc, username) ==
    IF fc.mode = "file-follow"
    THEN (IF toLowerCase(username) \in fc.follows THEN "true" ELSE "false")
    ELSE "unknown"

-----------------------------------------------------------------------------
(* main() *)

\* a seed string that ignores --seed and is always built from the clock
SeedStringsFromClock(a) == ClockSeeds

\* argv.seed is truthy: --seed was given and is not the empty string
SeedSupplied(a) == a.seed # <<>> /\ a.seed[1] # <<>>

\* the seed string handed to makeRNG (line 42): argv.seed when truthy, else
\* one built from the clock
SeedStrings(a) == IF SeedSupplied(a) THEN {a.seed[1]} ELSE ClockSeeds

\* A run before its first comment record.  Not-yet-made objects and the
\* not-yet-printed JSON are <<>>, made ones <<value>>.
\*   pool0   the pool as getEligibleCommenters returned it
\*   draws   per loop iteration: index, candidate, follow result, outcome
NewRun(h) ==
    [pc |-> "comments", fetched |-> 0, seen |-> {}, eligible |-> <<>>,
     n |-> 0, audit |-> <<>>, hasLiked |-> <<>>, isFollower |-> <<>>,
     h |-> h, output |-> <<>>, pool0 |-> <<>>, draws |-> <<>>]

\* a getEligibleCommenters whose `seen` holds usernames as spelled
getEligibleCommentersExactSeen(r, c) ==
    LET uname == toLowerCase(c.username)
        tags == extractMentions(c.text)
        r1 == [r EXCEPT !.fetched = @ + 1]
    IN  IF uname = <<>> \/ c.username \in r.seen THEN r1
        ELSE IF Len(tags) >= TagThreshold
        THEN [r1 EXCEPT !.seen = @ \cup {c.username},
                        !.eligible = Append(@, uname)]
        ELSE r1

\* a getEligibleCommenters that does not skip records without a username
getEligibleCommentersKeepsEmpty(r, c) ==
    LET uname == toLowerCase(c.username)
        tags == extractMentions(c.text)
        r1 == [r EXCEPT !.fetched = @ + 1]
    IN  IF uname \in r.seen THEN r1
        ELSE IF Len(tags) >= TagThreshold
        THEN [r1 EXCEPT !.seen = @ \cup {uname},
                        !.eligible = Append(@, uname)]
        ELSE r1

\* getEligibleCommenters: the body of the for-await loop for record c
getEligibleCommenters(r, c) ==
    LET uname == toLowerCase(c.username)
        tags == extractMentions(c.text)
        r1 == [r EXCEPT !.fetched = @ + 1]
    IN  IF uname = <<>> \/ uname \in r.seen THEN r1
        ELSE IF Len(tags) >= TagThreshold
        THEN [r1 EXCEPT !.seen = @ \cup {uname},
                        !.eligible = Append(@, uname)]
        ELSE r1

\* a main that checks followers by hand when no followers file is given
mainSetupFallsBackToManual(r, a, likes) ==
    IF Len(r.eligible) = 0
    THEN [r EXCEPT !.pc = "done",
                   !.output = <<[status |-> "no-eligible-commenters",
                                 keys |-> {"status", "eligible_count"},
                                 candidate |-> <<>>,
                                 eligible_count |-> 0,
                                 audit |-> <<>>]>>]
    ELSE [r EXCEPT !.pc = "draw", !.pool0 = r.eligible,
                   !.hasLiked = <<makeLikeChecker(likes)>>,
                   !.isFollower =
                       <<makeFollowChecker(IF a.csv = <<>> THEN "manual-follow"
                                           ELSE a.mode, a.csv)>>,
                   !.n = Len(r.eligible), !.audit = <<>>]

\* main, from the return of getEligibleCommenters to the draw loop
\* (lines 119-131), the likes edge holding `likes`
mainSetup(r, a, likes) ==
    IF Len(r.eligible) = 0
    THEN [r EXCEPT !.pc = "done",
                   !.output = <<[status |-> "no-eligible-commenters",
                                 keys |-> {"status", "eligible_count"},
                                 candidate |-> <<>>,
                                 eligible_count |-> 0,
                                 audit |-> <<>>]>>]
    ELSE IF followCheckerThrows(a.mode, a.csv)
    THEN [r EXCEPT !.pc = "fatal", !.pool0 = r.eligible,
                   !.hasLiked = <<makeLikeChecker(likes)>>]
    ELSE [r EXCEPT !.pc = "draw", !.pool0 = r.eligible,
                   !.hasLiked = <<makeLikeChecker(likes)>>,
                   !.isFollower = <<makeFollowChecker(a.mode, a.csv)>>,
                   !.n = Len(r.eligible), !.audit = <<>>]

\* winnerStatus that reports every accepted candidate as a confirmed winner
winnerStatusAlwaysWinner(followState) == "winner"

\* the status of an accepted candidate (line 146)
winnerStatus(followState) ==
    IF followState = "unknown" THEN "winner-pending-follow-confirmation"
    ELSE "winner"

\* an acceptance test that leaves the like out
acceptsWithoutLike(liked, follows, followState) ==
    follows \/ followState = "unknown"

\* the acceptance test of line 142
accepts(liked, follows, followState) ==
    liked /\ (follows \/ followState = "unknown")

\* an audit.push that keeps only the latest record
auditPushOverwrites(audit, rec) == <<rec>>

\* audit.push(rec) (line 140)
auditPush(audit, rec) == Append(audit, rec)

\* one iteration of the draw loop (lines 134-156) for drawn index i, the
\* RNG left in state h, and the final console.log (line 158) when the loop
\* ends with it
mainDrawAt(r, h, i) ==
    LET candidate == r.eligible[i + 1]
        lk == hasLiked(r.hasLiked[1], candidate)
        liked == lk.ret
        followState == isFollower(r.isFollower[1], candidate)
        follows == (followState = "true")
        audit == auditPush(r.audit, [candidate |-> candidate,
                                     liked |-> liked, follows |-> follows])
        accepted == accepts(liked, follows, followState)
        sr == swapRemove(r.eligible, i, r.n)
        r1 == [r EXCEPT !.h = h, !.hasLiked = <<lk.lc>>, !.audit = audit,
                        !.draws = Append(@, [i |-> i, candidate |-> candidate,
                                             liked |-> liked,
                                             followState |-> followState,
                                             read |-> lk.read,
                                             accepted |-> accepted])]
    IN  IF accepted
        THEN [r1 EXCEPT !.pc = "done",
                 !.output = <<[status |-> winnerStatus(followState),
                               keys |-> {"status", "candidate", "profileUrl",
                                         "eligible_count", "audit"},
                               candidate |-> candidate,
                               eligible_count |-> Len(r.eligible),
                               audit |-> audit]>>]
        ELSE IF sr.n > 0
        THEN [r1 EXCEPT !.eligible = sr.arr, !.n = sr.n]
        ELSE [r1 EXCEPT !.eligible = sr.arr, !.n = sr.n, !.pc = "done",
                 !.output = <<[status |-> "no-qualified-winner-after-checks",
                               keys |-> {"status", "eligible_count", "audit"},
                               candidate |-> <<>>,
                               eligible_count |-> Len(sr.arr),
                               audit |-> audit]>>]

\* one iteration of the draw loop (lines 132-156) with the index the seeded
\* RNG gives
mainDraw(r) ==
    LET rnd == random(r.h)
    IN  mainDrawAt(r, rnd.h, DrawIndex(rnd.m, r.n))

-----------------------------------------------------------------------------
(* Spec: one run of the program *)

Idle == <<>>    \* the value of a variable a specification does not use

Init ==
    /\ argv \in Argvs
    /\ run \in {NewRun(makeRNG(s)) : s \in SeedStrings(argv)}
    /\ twin = Idle
    /\ checker = Idle
    /\ last = Idle
    /\ byUser = Idle

\* the comments edge yields one more record
FetchComment ==
    /\ run.pc = "comments"
    /\ run.fetched < MaxComments
    /\ \E c \in CommentRecords : run' = getEligibleCommenters(run, c)
    /\ UNCHANGED <<argv, twin, checker, last, byUser>>

\* the comments edge is exhausted
Setup ==
    /\ run.pc = "comments"
    /\ \E likes \in LikeStreams : run' = mainSetup(run, argv, likes)
    /\ UNCHANGED <<argv, twin, checker, last, byUser>>

Draw ==
    /\ run.pc = "draw"
    /\ run' = mainDraw(run)
    /\ UNCHANGED <<argv, twin, checker, last, byUser>>

Next == FetchComment \/ Setup \/ Draw

Spec == Init /\ [][Next]_vars

-----------------------------------------------------------------------------
(* SpecAnyDraw: one run of the program in which RNG.random() may return any
   value of [0, 1), so that Math.floor(RNG.random() * n) is any index
   below n *)

DrawAny ==
    /\ run.pc = "draw"
    /\ \E i \in 0..(run.n - 1) : run' = mainDrawAt(run, random(run.h).h, i)
    /\ UNCHANGED <<argv, twin, checker, last, byUser>>

NextAnyDraw == FetchComment \/ Setup \/ DrawAny

SpecAnyDraw == Init /\ [][NextAnyDraw]_vars

-----------------------------------------------------------------------------
(* SpecIndexed: one run of the program, with the comment texts of every
   user recorded in `byUser` as the records arrive *)

FetchAndIndexComment ==
    /\ run.pc = "comments"
    /\ run.fetched < MaxComments
    /\ \E c \in CommentRecords :
          /\ run' = getEligibleCommenters(run, c)
          /\ byUser' = indexComment(byUser, c)
    /\ UNCHANGED <<argv, twin, checker, last>>

NextIndexed == FetchAndIndexComment \/ Setup \/ Draw

SpecIndexed == Init /\ [][NextIndexed]_vars

-----------------------------------------------------------------------------
(* SpecLike: one like checker, asked about any handles in any order *)

QueryNames == {<<"a">>, <<"b">>, <<"A">>}

\* `last` records the latest query (u, ret, scan: whether it reached the
\* for-await loop, read: the like records it was handed), every record
\* handed so far in order (log), and the handles answered true (confirmed)
InitLike ==
    /\ \E likes \in LikeStreams : checker = makeLikeChecker(likes)
    /\ last = [asked |-> FALSE, u |-> <<>>, ret |-> FALSE, scan |-> FALSE,
               read |-> <<>>, log |-> <<>>, confirmed |-> {}]
    /\ argv = Idle
    /\ run = Idle
    /\ twin = Idle
    /\ byUser = Idle

Query ==
    /\ \E u \in QueryNames :
         LET q == hasLiked(checker, u)
         IN  /\ checker' = q.lc
             /\ last' = [asked |-> TRUE, u |-> u, ret |-> q.ret,
                         scan |-> q.scan, read |-> q.read,
                         log |-> last.log \o q.read,
                         confirmed |-> IF q.ret
                                       THEN last.confirmed \cup {toLowerCase(u)}
                                       ELSE last.confirmed]
    /\ UNCHANGED <<argv, run, twin, byUser>>

NextLike == Query

SpecLike == InitLike /\ [][NextLike]_vars

\* the distinct non-empty liker handles of a whole likes stream
AllLikers(items) == Likers(items, 1, Len(items))

\* the position of the first like record of handle u (0 when there is none)
FirstLike(items, u) ==
    LET at == {j \in 1..Len(items) : toLowerCase(items[j]) = u}
    IN  IF at = {} THEN 0 ELSE CHOOSE j \in at : \A k \in at : j <= k

SetMax(S) == IF S = {} THEN 0 ELSE CHOOSE x \in S : \A y \in S : y <= x

\* C1: every hasLiked(u) returns true exactly when u's lowercased handle
\* occurs in the likes stream, whatever was asked before.
C1_AnswerIsMembership ==
    last.asked =>
        (last.ret <=> toLowerCase(last.u) \in AllLikers(checker.pager.items))

\* C2: after a query that returned true from inside the scan with like
\* records still unread, the next query that scans is handed the first
\* unread record, and the source is not taken to have ended.
C2_CursorKeepsPosition ==
    [][(/\ last.asked /\ last.scan /\ last.ret
        /\ checker.pager.pos < Len(checker.pager.items)
        /\ last'.scan)
       => /\ last'.read # <<>>
          /\ last'.read[1] = checker.pager.pos + 1]_vars

\* C3: the cache holds only handles of the likes stream, and once exhausted
\* is set it holds all of them.
C3_CacheWithinLikers ==
    /\ checker.cache \subseteq AllLikers(checker.pager.items)
    /\ checker.exhausted => checker.cache = AllLikers(checker.pager.items)

\* C10: no like record is handed out twice; the number handed out is the
\* shortest prefix holding every positively confirmed handle, or the whole
\* stream once exhausted is set; a query answered from the cache or after
\* exhaustion is handed nothing.
C10_OnePassOverLikes ==
    /\ \A j, k \in 1..Len(last.log) : j # k => last.log[j] # last.log[k]
    /\ Len(last.log) =
         IF checker.exhausted THEN Len(checker.pager.items)
         ELSE SetMax({FirstLike(checker.pager.items, u) : u \in last.confirmed})
    /\ (last.asked /\ ~last.scan) => last.read = <<>>

-----------------------------------------------------------------------------
(* Properties of one run (Spec, SpecIndexed) *)

WinnerStatuses == {"winner", "winner-pending-follow-confirmation"}

Finished(r) == r.pc = "done" /\ r.output # <<>>

\* the likes stream the run's like checker reads
LikesOf(r) == r.hasLiked[1].pager.items

\* whether the follow rule lets candidate c through in this run
PassesFollow(r, c) == isFollower(r.isFollower[1], c) \in {"true", "unknown"}

\* C4: a run that ends with no-qualified-winner had no candidate in its
\* initial pool who is in the likes stream and passes the follow rule.
C4_NoWinnerMeansNoneQualified ==
    (Finished(run)
     /\ run.output[1].status = "no-qualified-winner-after-checks")
    => \A k \in 1..Len(run.pool0) :
          ~(/\ run.pool0[k] \in AllLikers(LikesOf(run))
            /\ PassesFollow(run, run.pool0[k]))

\* C5: every declared winner tagged at least 3 unique accounts over all of
\* their comments, and every commenter who did so is in the pool the
\* winner is drawn from.
C5_TagRuleOverAllComments ==
    /\ (Finished(run) /\ run.output[1].status \in WinnerStatuses)
       => meetsTagRule(run.output[1].candidate, byUser)
    /\ run.pc \in {"draw", "done"}
       => \A u \in DOMAIN byUser :
             meetsTagRule(u, byUser) => u \in Range(run.eligible)
                                           \/ u \in Range(run.pool0)

\* C6: a drawn candidate is accepted, ending the loop with a winner result
\* naming them, exactly when the tag rule passed, hasLiked returned true
\* and the follow result is true or "unknown"; otherwise the loop goes on.
C6_AcceptIffAllRulesPass ==
    \A k \in 1..Len(run.draws) :
        LET d == run.draws[k]
        IN  /\ d.accepted <=> (/\ meetsTagRule(d.candidate, byUser)
                               /\ d.liked
                               /\ d.followState \in {"true", "unknown"})
            /\ d.accepted => (/\ k = Len(run.draws)
                              /\ Finished(run)
                              /\ run.output[1].status \in WinnerStatuses
                              /\ run.output[1].candidate = d.candidate)
            /\ ~d.accepted => (\/ k < Len(run.draws)
                               \/ run.pc = "draw"
                               \/ run.n = 0)

\* C7: status `winner` only with follow result true, status
\* `winner-pending-follow-confirmation` exactly with "unknown"; so never
\* `winner` in manual-follow mode, never pending in file-follow mode.
C7_StatusFollowsFollowResult ==
    \A k \in 1..Len(run.draws) :
        run.draws[k].accepted =>
            /\ Finished(run)
            /\ run.output[1].status = "winner"
                  => run.draws[k].followState = "true"
            /\ run.output[1].status = "winner-pending-follow-confirmation"
                  <=> run.draws[k].followState = "unknown"
            /\ argv.mode = "manual-follow" => run.output[1].status # "winner"
            /\ argv.mode = "file-follow"
                  => run.output[1].status # "winner-pending-follow-confirmation"

\* a manual-follow run that accepted its second draw
C7_PendingWinnerReached ==
    /\ Finished(run)
    /\ argv.mode = "manual-follow"
    /\ run.output[1].status = "winner-pending-follow-confirmation"
    /\ Len(run.draws) = 2

Rejections(r) == Cardinality({k \in 1..Len(r.draws) : ~r.draws[k].accepted})

\* C8: from a pool of N distinct candidates and for any random values the
\* loop draws each candidate at most once, makes at most N draws, the
\* logical length n being N less one for every rejection, and has ended
\* once N draws are made.
C8_EachCandidateDrawnOnce ==
    run.pc \in {"draw", "done"} =>
        /\ \A j, k \in 1..Len(run.pool0) : j # k => run.pool0[j] # run.pool0[k]
        /\ \A j, k \in 1..Len(run.draws) :
               j # k => run.draws[j].candidate # run.draws[k].candidate
        /\ \A k \in 1..Len(run.draws) :
               run.draws[k].candidate \in Range(run.pool0)
        /\ Len(run.draws) <= Len(run.pool0)
        /\ run.n = Len(run.pool0) - Rejections(run)
        /\ run.pc = "draw" => run.n > 0
        /\ (run.pool0 # <<>> /\ Len(run.draws) = Len(run.pool0))
               => (Finished(run) /\ run.output[1].status # "no-eligible-commenters")

\* a pool of two, both drawn and rejected
C8_PoolExhaustedReached ==
    /\ Finished(run)
    /\ run.output[1].status = "no-qualified-winner-after-checks"
    /\ Len(run.pool0) = 2
    /\ Len(run.draws) = 2
    /\ run.n = 0

-----------------------------------------------------------------------------
(* SpecTwin: two independent runs of the program on the same command line,
   the same comments edge and the same likes edge.  Each run makes its own
   RNG; the two read equal records because the collections are the same. *)

InitTwin ==
    /\ argv \in Argvs
    /\ run \in {NewRun(makeRNG(s)) : s \in SeedStrings(argv)}
    /\ twin \in {NewRun(makeRNG(s)) : s \in SeedStrings(argv)}
    /\ checker = Idle
    /\ last = Idle
    /\ byUser = Idle

TwinFetchComment ==
    /\ run.pc = "comments" /\ twin.pc = "comments"
    /\ run.fetched < MaxComments
    /\ \E c \in CommentRecords :
          /\ run' = getEligibleCommenters(run, c)
          /\ twin' = getEligibleCommenters(twin, c)
    /\ UNCHANGED <<argv, checker, last, byUser>>

TwinSetup ==
    /\ run.pc = "comments" /\ twin.pc = "comments"
    /\ \E likes \in LikeStreams :
          /\ run' = mainSetup(run, argv, likes)
          /\ twin' = mainSetup(twin, argv, likes)
    /\ UNCHANGED <<argv, checker, last, byUser>>

\* each run still in its draw loop makes its next iteration
TwinDraw ==
    /\ run.pc = "draw" \/ twin.pc = "draw"
    /\ run' = IF run.pc = "draw" THEN mainDraw(run) ELSE run
    /\ twin' = IF twin.pc = "draw" THEN mainDraw(twin) ELSE twin
    /\ UNCHANGED <<argv, checker, last, byUser>>

NextTwin == TwinFetchComment \/ TwinSetup \/ TwinDraw

SpecTwin == InitTwin /\ [][NextTwin]_vars

-----------------------------------------------------------------------------
(* Properties of the tag rule, the audit trail and the set-up of one run *)

\* the usernames of the comment stream, lowercased, the empty ones left out
Commenters == DOMAIN byUser

\* C11: a run whose comment stream has a commenter with a non-empty username
\* but no commenter meeting the tag rule ends with no-qualified-winner, not
\* with the no-candidates result, and its audit trail has one record, marked
\* as failing the tag rule, for every commenter drawn.
C11_TagFailuresAreAudited ==
    (/\ run.pc \in {"done", "fatal"}
     /\ Commenters # {}
     /\ \A u \in Commenters : ~meetsTagRule(u, byUser))
    => /\ Finished(run)
       /\ run.output[1].status = "no-qualified-winner-after-checks"
       /\ "audit" \in run.output[1].keys
       /\ run.output[1].audit # <<>>
       /\ \A k \in 1..Len(run.output[1].audit) :
             /\ run.output[1].audit[k].candidate \in Commenters
             /\ "tagRulePassed" \in DOMAIN run.output[1].audit[k]

-----------------------------------------------------------------------------
(* SpecNameless: one run of the program on a comment stream that yields no
   record or only records with an empty username *)

NamelessRecords == {c \in CommentRecords : c.username = <<>>}

FetchNamelessComment ==
    /\ run.pc = "comments"
    /\ run.fetched < MaxComments
    /\ \E c \in NamelessRecords : run' = getEligibleCommenters(run, c)
    /\ UNCHANGED <<argv, twin, checker, last, byUser>>

NextNameless == FetchNamelessComment \/ Setup

SpecNameless == Init /\ [][NextNameless]_vars

C13_AuditIsAppendOnlyDrawLog ==
    /\ [](run.pc \in {"draw", "done"} =>
            /\ Len(run.audit) = Len(run.draws)
            /\ \A j \in 1..Len(run.audit) :
                  run.audit[j].candidate = run.draws[j].candidate
            /\ \A j, k \in 1..Len(run.audit) :
                  j # k => run.audit[j].candidate # run.audit[k].candidate
            /\ Len(run.audit) <= Len(run.pool0)
            /\ (Finished(run) /\ run.output[1].status \in WinnerStatuses)
                  => /\ run.output[1].audit = run.audit
                     /\ run.audit[Len(run.audit)].candidate
                           = run.output[1].candidate)
    /\ [][run.pc = "draw" =>
            /\ Len(run'.audit) = Len(run.audit) + 1
            /\ SubSeq(run'.audit, 1, Len(run.audit)) = run.audit]_vars

\* a run that rejected one candidate and accepted the next: two audit
\* records, the second naming the winner
C13_TwoRecordsThenWinnerReached ==
    /\ Finished(run)
    /\ run.output[1].status \in WinnerStatuses
    /\ Len(run.audit) = 2
    /\ run.audit[2].candidate = run.output[1].candidate

\* C14: the tag rule is decided before any like record is read for a
\* candidate: no like record is read on behalf of a candidate who fails the
\* tag rule.
C14_NoLikeReadForTagFailure ==
    \A k \in 1..Len(run.draws) :
        run.draws[k].read # <<>>
            => meetsTagRule(run.draws[k].candidate, byUser)

\* the follow state an audit record shows: its `follows` field as
\* JSON.stringify prints it
auditFollowState(rec) == IF rec.follows THEN "true" ELSE "false"

\* C15: a candidate whose follow result is "unknown" passes the follow rule
\* provisionally, and the audit record of that candidate carries the follow
\* state "unknown", neither true nor false.
C15_UnknownIsAuditedAsUnknown ==
    \A k \in 1..Len(run.draws) :
        run.draws[k].followState = "unknown"
            => /\ run.draws[k].accepted <=> run.draws[k].liked
               /\ auditFollowState(run.audit[k]) = "unknown"

\* --follow-mode file-follow without --followers-csv
MissingFollowers == argv.mode = "file-follow" /\ argv.csv = <<>>

\* C16, as claimed: with the file-backed follow strategy and no followers
\* source the run ends in a fatal configuration failure whatever the comment
\* stream holds: no candidate drawn, no like record read, no selection
\* result printed.
C16_MissingFollowersAlwaysFatal ==
    (MissingFollowers /\ run.pc # "comments")
    => /\ run.pc = "fatal"
       /\ run.output = <<>>
       /\ run.draws = <<>>
       /\ run.hasLiked # <<>> => run.hasLiked[1].pager.pos = 0

\* C16, amended: with the file-backed follow strategy and no followers
\* source no candidate is drawn and no like record is read; the run ends in
\* a fatal configuration failure without a selection result exactly when the
\* pool is not empty, and with the no-candidates result when it is empty.
C16_MissingFollowersFatalUnlessPoolEmpty ==
    MissingFollowers
    => /\ run.pc # "draw"
       /\ run.draws = <<>>
       /\ run.audit = <<>>
       /\ run.hasLiked # <<>> => run.hasLiked[1].pager.pos = 0
       /\ run.pc # "comments" =>
             (run.pc = "fatal" <=> run.eligible # <<>>)
       /\ run.pc = "fatal" => run.output = <<>>
       /\ run.pc = "done" =>
             /\ run.eligible = <<>>
             /\ Finished(run)
             /\ run.output[1].status = "no-eligible-commenters"

\* a run with a pool of two that stopped on the missing followers source
C16_FatalWithPoolReached ==
    /\ MissingFollowers
    /\ run.pc = "fatal"
    /\ Len(run.eligible) = 2

\* the logical pool eligible[0..n-1]
LogicalPool(r) == SubSeq(r.eligible, 1, r.n)

NoRepeats(q) == \A j, k \in 1..Len(q) : j # k => q[j] # q[k]

\* the candidates rejected so far
Rejected(r) ==
    {r.draws[k].candidate : k \in {j \in 1..Len(r.draws) : ~r.draws[j].accepted}}

\* C18: the logical pool eligible[0..n-1] holds each candidate at most once,
\* both as built (lowercased, non-empty usernames, one entry per username)
\* and after any draws and swap-removes; after k rejections it is exactly
\* the initial pool less the k rejected candidates.
C18_LogicalPoolIsInitialLessRejected ==
    /\ run.pc = "comments" =>
          /\ NoRepeats(run.eligible)
          /\ \A k \in 1..Len(run.eligible) :
                /\ run.eligible[k] # <<>>
                /\ run.eligible[k] = toLowerCase(run.eligible[k])
    /\ run.pc \in {"draw", "done"} =>
          /\ NoRepeats(run.pool0)
          /\ NoRepeats(LogicalPool(run))
          /\ Range(LogicalPool(run)) = Range(run.pool0) \ Rejected(run)
          /\ Len(LogicalPool(run)) = Len(run.pool0) - Cardinality(Rejected(run))

\* a pool of two whose first entry was drawn and rejected, the second moved
\* into its slot
C18_SwappedAfterRejectionReached ==
    /\ run.pc = "draw"
    /\ Len(run.pool0) = 2
    /\ Len(run.draws) = 1
    /\ run.draws[1].i = 0
    /\ LogicalPool(run) = <<run.pool0[2]>>

\* C19: a swap-remove changes only the array slot at the drawn index and
\* the logical length; the array is never resized, so the eligible_count of
\* every terminal result is the size of the initial pool, however many
\* candidates were rejected.
C19_ArrayKeepsItsLength ==
    /\ [](run.pc \in {"draw", "done"} =>
            /\ Len(run.eligible) = Len(run.pool0)
            /\ Finished(run) =>
                  run.output[1].eligible_count = Len(run.pool0))
    /\ [][run.pc = "draw" =>
            /\ Len(run'.eligible) = Len(run.eligible)
            /\ \A j \in 1..Len(run.eligible) :
                  j # run'.draws[Len(run'.draws)].i + 1
                      => run'.eligible[j] = run.eligible[j]
            /\ run'.n \in {run.n, run.n - 1}]_vars

\* a pool of two, both rejected: the array still has two slots and the
\* result reports an eligible_count of 2
C19_CountAfterTwoRejectionsReached ==
    /\ Finished(run)
    /\ Cardinality(Rejected(run)) = 2
    /\ Len(run.eligible) = 2
    /\ run.output[1].eligible_count = 2

\* handle c, lowercased, is the username of some record of the likes stream
InLikesStream(r, c) ==
    \E j \in 1..Len(LikesOf(r)) : toLowerCase(LikesOf(r)[j]) = c

\* handle c, lowercased, is a row of the followers file
InFollowersFile(c) ==
    \E j \in 1..Len(argv.csv[1]) : toLowerCase(argv.csv[1][j]) = c

\* C20: the candidate a winner result names is a member of the initial
\* pool, their handle occurs in the likes stream and, in file-follow mode,
\* in the loaded follower set; hasLiked never returns true for a handle the
\* likes stream does not hold.
C20_WinnerIsPoolMemberLikerFollower ==
    /\ \A k \in 1..Len(run.draws) :
          run.draws[k].liked => InLikesStream(run, run.draws[k].candidate)
    /\ (Finished(run) /\ run.output[1].status \in WinnerStatuses) =>
          /\ run.output[1].candidate \in Range(run.pool0)
          /\ InLikesStream(run, run.output[1].candidate)
          /\ argv.mode = "file-follow"
                => InFollowersFile(run.output[1].candidate)

\* a file-follow run that rejected one candidate and declared the next the
\* winner
C20_FileFollowWinnerReached ==
    /\ Finished(run)
    /\ argv.mode = "file-follow"
    /\ run.output[1].status = "winner"
    /\ Cardinality(Rejected(run)) = 1

-----------------------------------------------------------------------------
(* SpecTag: meetsTagRule applied to any username and any map from usernames
   to comment texts *)

MaxTexts == 2

T2b == <<"@", "X", " ", "@", "z">>                     \* "@X @z"

TagTexts == Texts \cup {T2b}
TextLists == UNION {[1..k -> TagTexts] : k \in 0..MaxTexts}
TagUsers == {<<"a">>, <<"b">>}
TagMaps == UNION {[D -> TextLists] : D \in SUBSET TagUsers}
TagQueryNames == {<<"a">>, <<"A">>, <<"b">>}

InitTag ==
    /\ byUser \in TagMaps
    /\ last = [asked |-> FALSE, u |-> <<>>, ret |-> FALSE]
    /\ argv = Idle
    /\ run = Idle
    /\ twin = Idle
    /\ checker = Idle

CheckTag ==
    /\ \E u \in TagQueryNames :
          last' = [asked |-> TRUE, u |-> u, ret |-> meetsTagRule(u, byUser)]
    /\ UNCHANGED <<argv, run, twin, checker, byUser>>

NextTag == CheckTag

SpecTag == InitTag /\ [][NextTag]_vars

\* the texts the map holds for username u, looked up lowercased
TextsOf(u) ==
    IF toLowerCase(u) \in DOMAIN byUser THEN byUser[toLowerCase(u)] ELSE <<>>

\* the distinct lowercased handles mentioned in any of u's texts
UniqueTags(u) ==
    UNION {{toLowerCase(m) : m \in Range(extractMentions(TextsOf(u)[k]))} :
              k \in 1..Len(TextsOf(u))}

\* C17: meetsTagRule(username, byUserMap) is true exactly when the union of
\* the lowercased mentions over all texts of that user holds at least 3
\* distinct handles; it is false for a user with no texts in the map.
C17_TagRuleIsThreeUniqueOverAllTexts ==
    last.asked =>
        /\ last.ret <=> Cardinality(UniqueTags(last.u)) >= 3
        /\ TextsOf(last.u) = <<>> => ~last.ret

\* a user whose two comments tag two accounts each, three between them,
\* asked about under an uppercase spelling and found to meet the rule
C17_ThreeTagsOverTwoTextsReached ==
    /\ last.asked
    /\ last.u = <<"A">>
    /\ TextsOf(last.u) = <<T2, T2b>>
    /\ last.ret

=============================================================================
